---- MODULE Spec2Model ----
(***************************************************************************)
(* Control plane of the IDXD PCI raw device driver                         *)
(* (drivers/raw/ioat/idxd_pci.c): the command executor                     *)
(* idxd_pci_dev_command, device initialisation init_pci_device, the probe  *)
(* entry idxd_rawdev_probe_pci and the removal path                        *)
(* idxd_rawdev_remove_pci / idxd_rawdev_destroy, together with the device  *)
(* registers they read and write and the hardware that completes commands. *)
(***************************************************************************)
EXTENDS Integers, Sequences, FiniteSets, TLC

(***************************************************************************)
(* Bounds of the model.                                                    *)
(***************************************************************************)
\* error codes the hardware reports in the low byte of cmdstatus: 0..MaxErr
MaxErr == 1
\* number of threads that may call into the driver
NThreads == 2
\* largest queue index handed to the command encoder
MaxQid == 17
\* largest capabilities the configuration planner is run on
MaxGroups == 4
MaxEngines == 4
MaxWqs == 5
MaxDepth == 11

(***************************************************************************)
(* Program constants.                                                      *)
(***************************************************************************)
\* idxd_pci.c:36   if (++i >= 1000)
PollCap == 1000
\* idxd_pci.c:60   #define IDXD_PORTAL_SIZE (4096 * 4)
IDXD_PORTAL_SIZE == 16384
\* idxd_pci.c:227, 233   return -EINVAL
EINVAL == 22
\* idxd_pci.c:128, 139   1ULL << i: the width of an unsigned long long
ULL_BITS == 64
\* ioat_spec.h: command register layout, (opcode << 8) | target
IDXD_CMD_SHIFT == 8
\* ioat_spec.h: low error-code bits of the status byte
CMDSTATUS_ERR_MASK == 255
\* ioat_spec.h: device state field of gensts
GENSTS_DEV_STATE_MASK == 3
\* ioat_spec.h: enum rte_idxd_cmds
idxd_enable_dev == 1
idxd_disable_dev == 2
idxd_drain_all == 3
idxd_abort_all == 4
idxd_reset_device == 5
idxd_enable_wq == 6
idxd_disable_wq == 7
idxd_drain_wq == 8
idxd_abort_wq == 9
idxd_reset_wq == 10
\* ioat_spec.h: work queue configuration words and fields
WQ_SIZE_IDX == 0
WQ_MODE_IDX == 2
WQ_SIZES_IDX == 3
WQ_MODE_DEDICATED == 1
WQ_PRIORITY_SHIFT == 4
WQ_BATCH_SZ_SHIFT == 5
\* ioat_spec.h: the state field of a work queue, bits 30..31 of word 6
WQ_STATE_IDX == 6
WQ_STATE_SHIFT == 30
WQ_STATE_MASK == 3

Cmds == idxd_enable_dev .. idxd_reset_wq

Threads == 1 .. NThreads

\* the thread the bus runs probe and remove on
Control == 1

(***************************************************************************)
(* C integer arithmetic.                                                   *)
(***************************************************************************)
RECURSIVE Pow2(_)
Pow2(n) == IF n = 0 THEN 1 ELSE 2 * Pow2(n - 1)

RECURSIVE BitOr(_, _)
BitOr(a, b) ==
    IF a = 0 THEN b
    ELSE IF b = 0 THEN a
    ELSE (IF (a % 2 = 1) \/ (b % 2 = 1) THEN 1 ELSE 0)
         + 2 * BitOr(a \div 2, b \div 2)

RECURSIVE BitAnd(_, _)
BitAnd(a, b) ==
    IF a = 0 \/ b = 0 THEN 0
    ELSE (IF (a % 2 = 1) /\ (b % 2 = 1) THEN 1 ELSE 0)
         + 2 * BitAnd(a \div 2, b \div 2)

\* x << n on a non-negative value that does not overflow
Shl(x, n) == x * Pow2(n)

\* conversion to uint8_t / uint16_t of a non-negative value
U8(x) == x % 256
U16(x) == x % 65536

(***************************************************************************)
(* Names: rte_pci_device_name gives the device's name, and probe registers *)
(* queue qid under snprintf("%s-q%d", name, qid).                          *)
(***************************************************************************)
DevName == "dev"

QName(qid) == DevName \o "-q" \o ToString(qid)

(***************************************************************************)
(* Capabilities the device reports (grpcap, engcap, wqcap, gencap).        *)
(***************************************************************************)
DeviceCaps ==
    { [groups |-> 1, engines |-> 2, wqs |-> 1, depth |-> 3,
       lg2_max_copy_size |-> 20, lg2_max_batch |-> 4],
      [groups |-> 2, engines |-> 1, wqs |-> 2, depth |-> 5,
       lg2_max_copy_size |-> 20, lg2_max_batch |-> 4] }

VARIABLES
    caps,       \* capability registers of the device (read-only)
    gensts,     \* regs->gensts, device state field
    cmdstatus,  \* regs->cmdstatus: [active: bit 31, low: bits 0..7]
    cmd,        \* regs->cmd
    grp_regs,   \* pci->grp_regs[]: group configuration table
    wq_regs,    \* pci->wq_regs[]: work queue configuration table
    pci,        \* the struct idxd_pci_common of the device: none, live, freed
    lk,         \* pci->lk: 0 when free, else the thread holding it
    rawdevs,    \* rawdev registry: name -> device created by idxd_rawdev_create
    pc,         \* per thread: the statement it is at
    loc,        \* per thread: local variables and arguments
    hist        \* what the bus saw: the outcome of the enable command and of probe

vars == << caps, gensts, cmdstatus, cmd, grp_regs, wq_regs, pci, lk, rawdevs,
           pc, loc, hist >>

\* locals of a thread that is in no driver function
NoLocals ==
    [ op |-> "none", name |-> "", caller |-> "none",
      command |-> 0, qid |-> 0, i |-> 0, reads |-> 0, err_code |-> 0,
      seen |-> [active |-> FALSE, low |-> 0],
      cond |-> [active |-> FALSE, low |-> 0], how |-> "none", ret |-> 0,
      cmd_writes |-> 0,
      nb_groups |-> 0, nb_engines |-> 0, nb_wqs |-> 0, wq_size |-> 0,
      loop_qid |-> 0, init_ret |-> 0, result |-> 0, nwrites |-> 0 ]

\* group and queue tables as the previous user of the device left them; a
\* 64-bit bitmap word of a group is the set of the bits that are 1 in it
StaleGrp(c) ==
    [g \in 0 .. c.groups - 1 |->
        [grpengcfg |-> {0, 2}, grpwqcfg |-> [w \in 0 .. 3 |-> {1, 2}],
         grpflags |-> 7]]

\* queue 0 was left enabled: its state field reads 1
StaleWq(c) ==
    [q \in 0 .. c.wqs - 1 |->
        [w \in 0 .. 7 |->
            IF q = 0 /\ w = WQ_STATE_IDX THEN Shl(1, WQ_STATE_SHIFT) ELSE 9]]

\* nothing has happened yet
NoHistory ==
    [ probe |-> "none", probe_ret |-> 0,
      checked |-> FALSE, seen_gensts |-> 0, seen_active |-> FALSE,
      enable |-> "none", enable_ret |-> 0,
      failed_qid |-> -1, frees |-> 0, anomalies |-> {} ]

Init ==
    /\ caps \in DeviceCaps
    /\ gensts \in {0, 1}
    /\ cmdstatus \in [active : BOOLEAN, low : 0 .. MaxErr]
    /\ cmd = 0
    /\ grp_regs = StaleGrp(caps)
    /\ wq_regs = StaleWq(caps)
    /\ pci = "none"
    /\ lk = 0
    /\ rawdevs = << >>
    /\ pc = [t \in Threads |-> "idle"]
    /\ loc = [t \in Threads |-> NoLocals]
    /\ hist = NoHistory

(***************************************************************************)
(* The hardware: a command written to regs->cmd is active until the device *)
(* completes it, which it may do at any time, or never, leaving an error   *)
(* code in the low byte of cmdstatus.                                      *)
(***************************************************************************)
HwComplete ==
    /\ cmdstatus.active
    /\ \E e \in 0 .. MaxErr : cmdstatus' = [active |-> FALSE, low |-> e]
    /\ UNCHANGED << caps, gensts, cmd, grp_regs, wq_regs, pci, lk, rawdevs,
                    pc, loc, hist >>

(***************************************************************************)
(* idxd_pci_dev_command                                                    *)
(***************************************************************************)
\* lines 28-29: the target of a command, as stored in the uint16_t qid
CmdTarget(command, qid) ==
    IF command >= idxd_disable_wq /\ command <= idxd_reset_wq
    THEN U16(Shl(1, qid))
    ELSE qid

\* line 31: the value written to regs->cmd
CmdRegValue(command, qid) ==
    BitOr(Shl(command, IDXD_CMD_SHIFT), CmdTarget(command, qid))

\* the cap compared with > : one poll too many
TimedOutLate(i) == i > PollCap

\* line 36: if (++i >= 1000), i already incremented
TimedOut(i) == i >= PollCap

\* line 35: err_code = regs->cmdstatus, converted to uint8_t
ReadErrCode(cs) == U8(cs.low)

\* line 41: regs->cmdstatus & CMDSTATUS_ACTIVE_MASK
ReadActive(cs) == cs.active

\* line 44: err_code & CMDSTATUS_ERR_MASK
CompletionResult(err_code) == BitAnd(err_code, CMDSTATUS_ERR_MASK)

\* where the executor returns to
ReturnPc(caller) ==
    IF caller = "init" THEN "init_enabled" ELSE "destroy_disabled"

\* the call: arguments set, i = 0 (lines 22-26)
CallCommand(l, caller, command, qid) ==
    [l EXCEPT !.caller = caller, !.command = command, !.qid = qid,
              !.i = 0, !.reads = 0, !.err_code = 0,
              !.seen = [active |-> FALSE, low |-> 0],
              !.cond = [active |-> FALSE, low |-> 0],
              !.how = "none", !.ret = 0]

\* line 30: rte_spinlock_lock
cmd_lock(t) ==
    /\ pc[t] = "cmd_lock"
    /\ lk = 0
    /\ lk' = t
    /\ pc' = [pc EXCEPT ![t] = "cmd_write"]
    /\ UNCHANGED << caps, gensts, cmdstatus, cmd, grp_regs, wq_regs, pci,
                    rawdevs, loc, hist >>

\* line 31: the command register is written and the device starts the command
cmd_write(t) ==
    /\ pc[t] = "cmd_write"
    /\ cmd' = CmdRegValue(loc[t].command, loc[t].qid)
    /\ cmdstatus' = [cmdstatus EXCEPT !.active = TRUE]
    /\ loc' = [loc EXCEPT ![t].nwrites = @ + 1, ![t].cmd_writes = @ + 1]
    /\ pc' = [pc EXCEPT ![t] = "cmd_poll"]
    /\ UNCHANGED << caps, gensts, grp_regs, wq_regs, pci, lk, rawdevs, hist >>

\* lines 34-36: pause, read the status into err_code, count, give up at the cap
cmd_poll(t) ==
    /\ pc[t] = "cmd_poll"
    /\ LET e == ReadErrCode(cmdstatus)
           n == loc[t].i + 1
       IN  IF TimedOut(n)
           THEN /\ loc' = [loc EXCEPT ![t].err_code = e, ![t].i = n,
                                      ![t].reads = @ + 1,
                                      ![t].seen = cmdstatus,
                                      ![t].how = "timeout", ![t].ret = e]
                /\ pc' = [pc EXCEPT ![t] = "cmd_unlock"]
           ELSE /\ loc' = [loc EXCEPT ![t].err_code = e, ![t].i = n,
                                      ![t].reads = @ + 1,
                                      ![t].seen = cmdstatus]
                /\ pc' = [pc EXCEPT ![t] = "cmd_cond"]
    /\ UNCHANGED << caps, gensts, cmdstatus, cmd, grp_regs, wq_regs, pci, lk,
                    rawdevs, hist >>

\* line 41: read the status again; loop while the command is active
cmd_cond(t) ==
    /\ pc[t] = "cmd_cond"
    /\ IF ReadActive(cmdstatus)
       THEN /\ loc' = [loc EXCEPT ![t].cond = cmdstatus]
            /\ pc' = [pc EXCEPT ![t] = "cmd_poll"]
       ELSE /\ loc' = [loc EXCEPT ![t].cond = cmdstatus,
                                  ![t].how = "complete",
                                  ![t].ret = CompletionResult(loc[t].err_code)]
            /\ pc' = [pc EXCEPT ![t] = "cmd_unlock"]
    /\ UNCHANGED << caps, gensts, cmdstatus, cmd, grp_regs, wq_regs, pci, lk,
                    rawdevs, hist >>

\* the executor's frame is gone; the caller holds how it ended and the value
CommandReturned(l) ==
    [l EXCEPT !.i = 0, !.reads = 0, !.err_code = 0,
              !.seen = [active |-> FALSE, low |-> 0],
              !.cond = [active |-> FALSE, low |-> 0]]

\* the unlock of line 38 left out: the timeout path returns with the lock
cmd_unlock_on_completion_only(t) ==
    /\ pc[t] = "cmd_unlock"
    /\ lk' = IF loc[t].how = "timeout" THEN lk ELSE 0
    /\ loc' = [loc EXCEPT ![t] = CommandReturned(@)]
    /\ pc' = [pc EXCEPT ![t] = ReturnPc(loc[t].caller)]
    /\ UNCHANGED << caps, gensts, cmdstatus, cmd, grp_regs, wq_regs, pci,
                    rawdevs, hist >>

\* lines 38-39 and 42-44: rte_spinlock_unlock, return
cmd_unlock(t) ==
    /\ pc[t] = "cmd_unlock"
    /\ lk' = 0
    /\ loc' = [loc EXCEPT ![t] = CommandReturned(@)]
    /\ pc' = [pc EXCEPT ![t] = ReturnPc(loc[t].caller)]
    /\ UNCHANGED << caps, gensts, cmdstatus, cmd, grp_regs, wq_regs, pci,
                    rawdevs, hist >>

(***************************************************************************)
(* init_pci_device                                                         *)
(***************************************************************************)
\* lines 88 and 93: the device is not disabled, or has a command in progress
DeviceNotIdle(sts) == BitAnd(sts, GENSTS_DEV_STATE_MASK) # 0

\* the check of line 93 left out
ValidationSkipsCommand(sts, cs) == DeviceNotIdle(sts)

ValidationFails(sts, cs) == DeviceNotIdle(sts) \/ ReadActive(cs)

\* lines 111-114: zero grpengcfg and grpwqcfg[0] of the first n groups
ZeroGroups(regs, n) ==
    [g \in DOMAIN regs |->
        IF g < n
        THEN [regs[g] EXCEPT !.grpengcfg = {}, !.grpwqcfg[0] = {}]
        ELSE regs[g]]

\* lines 115-116: zero wqcfg[0] of the first n queues
ZeroWqs(regs, n) ==
    [q \in DOMAIN regs |->
        IF q < n THEN [regs[q] EXCEPT ![0] = 0] ELSE regs[q]]

\* lines 119-122: both counts become the smaller one
ClampGroups(nb_groups, nb_engines) ==
    IF nb_groups > nb_engines THEN nb_engines ELSE nb_groups

ClampEngines(nb_groups, nb_engines) ==
    IF nb_groups < nb_engines THEN nb_groups ELSE nb_engines

\* what a shift by the width of the type or more, which C leaves undefined,
\* gives: the count taken modulo the width, or no bit at all
ShiftOutcomes == {"wrap", "zero"}

\* lines 128 and 139: the bits of 1ULL << i
ShiftedOne(i, ub) ==
    IF i < ULL_BITS THEN {i}
    ELSE IF ub = "wrap" THEN {i % ULL_BITS} ELSE {}

\* lines 125-129: for (i = from; i < nb_engines; i++) grpengcfg |= 1ULL << i
RECURSIVE AssignEngines(_, _, _, _, _)
AssignEngines(regs, from, nb_engines, nb_groups, ub) ==
    IF from >= nb_engines THEN regs
    ELSE AssignEngines(
            [regs EXCEPT ![from % nb_groups].grpengcfg =
                            @ \cup ShiftedOne(from, ub)],
            from + 1, nb_engines, nb_groups, ub)

\* line 132: wq_size = total_wq_size / nb_wqs
WqSize(total_wq_size, nb_wqs) == U16(total_wq_size \div nb_wqs)

\* lines 142-145: the mode and size-limit words
WqModeWord == BitOr(Shl(1, WQ_PRIORITY_SHIFT), WQ_MODE_DEDICATED)

WqSizesWord(lg2_max_copy_size, lg2_max_batch) ==
    BitOr(lg2_max_copy_size, Shl(lg2_max_batch, WQ_BATCH_SZ_SHIFT))

\* lines 135-139: for (i = from; i < nb_wqs; i++) grpwqcfg[0] |= 1ULL << i
RECURSIVE AssignWqs(_, _, _, _, _)
AssignWqs(regs, from, nb_wqs, nb_groups, ub) ==
    IF from >= nb_wqs THEN regs
    ELSE AssignWqs(
            [regs EXCEPT ![from % nb_groups].grpwqcfg[0] =
                            @ \cup ShiftedOne(from, ub)],
            from + 1, nb_wqs, nb_groups, ub)

\* lines 141-145: size, mode and size limits of the first nb_wqs queues
ConfigWqs(regs, nb_wqs, wq_size, c) ==
    [q \in DOMAIN regs |->
        IF q < nb_wqs
        THEN [regs[q] EXCEPT
                ![WQ_SIZE_IDX] = wq_size,
                ![WQ_MODE_IDX] = WqModeWord,
                ![WQ_SIZES_IDX] =
                    WqSizesWord(c.lg2_max_copy_size, c.lg2_max_batch)]
        ELSE regs[q]]

\* the bus calls probe once for the device (lines 175-186)
idxd_rawdev_probe_pci(t) ==
    /\ pc[t] = "idle"
    /\ hist.probe = "none"
    /\ hist' = [hist EXCEPT !.probe = "running"]
    /\ loc' = [loc EXCEPT ![t] = [NoLocals EXCEPT !.op = "probe"]]
    /\ pc' = [pc EXCEPT ![t] = "init_alloc"]
    /\ UNCHANGED << caps, gensts, cmdstatus, cmd, grp_regs, wq_regs, pci, lk,
                    rawdevs >>

\* lines 72-85: malloc of the control structure, lock initialised
init_alloc(t) ==
    /\ pc[t] = "init_alloc"
    /\ \E ok \in BOOLEAN :
        IF ok
        THEN /\ pci' = "live"
             /\ lk' = 0
             /\ loc' = loc
             /\ pc' = [pc EXCEPT ![t] = "init_check"]
        ELSE /\ pci' = pci
             /\ lk' = lk
             /\ loc' = [loc EXCEPT ![t].init_ret = -1]
             /\ pc' = [pc EXCEPT ![t] = "probe_init_ret"]
    /\ UNCHANGED << caps, gensts, cmdstatus, cmd, grp_regs, wq_regs, rawdevs,
                    hist >>

\* lines 87-97 and 169-171: sanity check of the device status
init_check(t) ==
    /\ pc[t] = "init_check"
    /\ IF ValidationFails(gensts, cmdstatus)
       THEN /\ pci' = "freed"
            /\ loc' = [loc EXCEPT ![t].init_ret = -1]
            /\ pc' = [pc EXCEPT ![t] = "probe_init_ret"]
       ELSE /\ pci' = pci
            /\ loc' = loc
            /\ pc' = [pc EXCEPT ![t] = "init_zero"]
    /\ hist' = [hist EXCEPT !.checked = TRUE, !.seen_gensts = gensts,
                            !.seen_active = cmdstatus.active,
                            !.frees = IF ValidationFails(gensts, cmdstatus)
                                      THEN @ + 1 ELSE @]
    /\ UNCHANGED << caps, gensts, cmdstatus, cmd, grp_regs, wq_regs, lk,
                    rawdevs >>

\* lines 99-116: read the capabilities, zero out any old config
init_zero(t) ==
    /\ pc[t] = "init_zero"
    /\ LET nb_groups == U8(caps.groups)
           nb_engines == U8(caps.engines)
           nb_wqs == U8(caps.wqs)
       IN  /\ grp_regs' = ZeroGroups(grp_regs, nb_groups)
           /\ wq_regs' = ZeroWqs(wq_regs, nb_wqs)
           /\ loc' = [loc EXCEPT ![t].nb_groups = nb_groups,
                                 ![t].nb_engines = nb_engines,
                                 ![t].nb_wqs = nb_wqs,
                                 ![t].nwrites = @ + 2 * nb_groups + nb_wqs]
    /\ pc' = [pc EXCEPT ![t] = "init_engines"]
    /\ UNCHANGED << caps, gensts, cmdstatus, cmd, pci, lk, rawdevs, hist >>

\* lines 118-129: one engine per group, engines assigned round robin
init_engines(t) ==
    /\ pc[t] = "init_engines"
    /\ LET g == ClampGroups(loc[t].nb_groups, loc[t].nb_engines)
           e == ClampEngines(g, loc[t].nb_engines)
       IN  /\ \E ub \in ShiftOutcomes :
                grp_regs' = AssignEngines(grp_regs, 0, e, g, ub)
           /\ loc' = [loc EXCEPT ![t].nb_groups = g, ![t].nb_engines = e,
                                 ![t].nwrites = @ + e]
    /\ pc' = [pc EXCEPT ![t] = "init_wqs"]
    /\ UNCHANGED << caps, gensts, cmdstatus, cmd, wq_regs, pci, lk, rawdevs,
                    hist >>

\* the queue loop of lines 135-146 not run before the enable command
init_wqs_left_out(t) ==
    /\ pc[t] = "init_wqs"
    /\ pc' = [pc EXCEPT ![t] = "init_enable"]
    /\ UNCHANGED << caps, gensts, cmdstatus, cmd, grp_regs, wq_regs, pci, lk,
                    rawdevs, loc, hist >>

\* lines 131-146: queues assigned round robin and given their work slots
init_wqs(t) ==
    /\ pc[t] = "init_wqs"
    /\ LET wq_size == WqSize(U16(caps.depth), loc[t].nb_wqs)
       IN  /\ \E ub \in ShiftOutcomes :
                grp_regs' = AssignWqs(grp_regs, 0, loc[t].nb_wqs,
                                      loc[t].nb_groups, ub)
           /\ wq_regs' = ConfigWqs(wq_regs, loc[t].nb_wqs, wq_size, caps)
           /\ loc' = [loc EXCEPT ![t].wq_size = wq_size,
                                 ![t].nwrites = @ + 4 * loc[t].nb_wqs]
    /\ pc' = [pc EXCEPT ![t] = "init_enable"]
    /\ UNCHANGED << caps, gensts, cmdstatus, cmd, pci, lk, rawdevs, hist >>

\* lines 156-160: idxd->u.pci set, the enable command issued; idxd->qid is 0
init_enable(t) ==
    /\ pc[t] = "init_enable"
    /\ loc' = [loc EXCEPT ![t] = CallCommand(@, "init", idxd_enable_dev, 0)]
    /\ pc' = [pc EXCEPT ![t] = "cmd_lock"]
    /\ UNCHANGED << caps, gensts, cmdstatus, cmd, grp_regs, wq_regs, pci, lk,
                    rawdevs, hist >>

\* lines 161-167: the value init_pci_device returns after the enable command
InitReturn(err_code, nb_wqs) == IF err_code # 0 THEN err_code ELSE nb_wqs

init_enabled(t) ==
    /\ pc[t] = "init_enabled"
    /\ loc' = [loc EXCEPT ![t].init_ret = InitReturn(loc[t].ret, loc[t].nb_wqs)]
    /\ hist' = [hist EXCEPT !.enable = loc[t].how, !.enable_ret = loc[t].ret]
    /\ pc' = [pc EXCEPT ![t] = "probe_init_ret"]
    /\ UNCHANGED << caps, gensts, cmdstatus, cmd, grp_regs, wq_regs, pci, lk,
                    rawdevs >>

(***************************************************************************)
(* idxd_rawdev_probe_pci, after init_pci_device                            *)
(***************************************************************************)
\* the device idxd_rawdev_create registers: a copy of idxd with its rings
NewRawdev(qid) ==
    [ qid |-> qid, portal |-> qid * IDXD_PORTAL_SIZE,
      attached |-> TRUE, dev_private |-> TRUE,
      batch_ring |-> "alloc", hdl_ring |-> "alloc", mz |-> "alloc" ]

\* rte_rawdev_pmd_get_named_dev: the attached device of exactly that name
Registered(name) ==
    name \in DOMAIN rawdevs /\ rawdevs[name].attached

\* line 187: if (ret < 0)
InitFailed(ret) == ret < 0

\* line 191: nb_wqs = (uint8_t)ret
QueuesToCreate(ret) == U8(ret)

\* lines 47-52: the state field of the queue reads enabled
idxd_is_wq_enabled(regs, qid) ==
    BitAnd(regs[qid][WQ_STATE_IDX] \div Pow2(WQ_STATE_SHIFT), WQ_STATE_MASK)
        = 1

\* what the read of line 50 may give: the table entry of the queue, or, for
\* an index past the queues of the device, whatever lies behind the table
WqEnabledReads(qid) ==
    IF qid \in DOMAIN wq_regs THEN {idxd_is_wq_enabled(wq_regs, qid)}
    ELSE BOOLEAN

\* lines 202-203: an enabled queue is reported by IOAT_PMD_ERR, no more
LogAnomaly(h, qid, enabled) ==
    IF enabled THEN [h EXCEPT !.anomalies = @ \cup {qid}] ELSE h

\* probe returns to the bus
ProbeReturns(t, value) ==
    /\ loc' = [loc EXCEPT ![t].result = value]
    /\ hist' = [hist EXCEPT !.probe = "returned", !.probe_ret = value]
    /\ pc' = [pc EXCEPT ![t] = "done"]

\* the control structure kept whatever queue failed
NeverFreeOnCreateFailure(qid) == FALSE

\* the control structure freed whatever queue failed
AlwaysFreeOnCreateFailure(qid) == TRUE

\* lines 207-208: if (qid == 0) free(idxd.u.pci)
FreeOnCreateFailure(qid) == qid = 0

\* lines 204-210: idxd_rawdev_create failed for queue qid; probe returns ret
CreateFailed(t, qid, ret, enabled) ==
    /\ pci' = IF FreeOnCreateFailure(qid) THEN "freed" ELSE pci
    /\ loc' = [loc EXCEPT ![t].result = ret]
    /\ hist' = [LogAnomaly(hist, qid, enabled) EXCEPT !.probe = "returned", !.probe_ret = ret,
                            !.failed_qid = qid,
                            !.frees = IF FreeOnCreateFailure(qid)
                                      THEN @ + 1 ELSE @]
    /\ pc' = [pc EXCEPT ![t] = "done"]

\* lines 186-191
probe_init_ret(t) ==
    /\ pc[t] = "probe_init_ret"
    /\ IF InitFailed(loc[t].init_ret)
       THEN ProbeReturns(t, loc[t].init_ret)
       ELSE /\ loc' = [loc EXCEPT ![t].nb_wqs = QueuesToCreate(loc[t].init_ret),
                                  ![t].loop_qid = 0]
            /\ hist' = hist
            /\ pc' = [pc EXCEPT ![t] = "probe_create"]
    /\ UNCHANGED << caps, gensts, cmdstatus, cmd, grp_regs, wq_regs, pci, lk,
                    rawdevs >>

\* lines 194-214: one rawdev per queue; idxd_rawdev_create may fail
probe_create(t) ==
    /\ pc[t] = "probe_create"
    /\ LET qid == loc[t].loop_qid
           qname == QName(qid)
       IN  IF qid < loc[t].nb_wqs
           THEN \E ok \in BOOLEAN, enabled \in WqEnabledReads(qid) :
                   IF ok /\ ~Registered(qname)
                   THEN /\ rawdevs' =
                             [n \in DOMAIN rawdevs \cup {qname} |->
                                 IF n = qname THEN NewRawdev(qid)
                                 ELSE rawdevs[n]]
                        /\ loc' = [loc EXCEPT ![t].loop_qid = qid + 1]
                        /\ hist' = LogAnomaly(hist, qid, enabled)
                        /\ UNCHANGED << pci, pc >>
                   ELSE /\ rawdevs' = rawdevs
                        /\ CreateFailed(t, qid, -12, enabled)
           ELSE /\ UNCHANGED << rawdevs, pci >>
                /\ ProbeReturns(t, 0)
    /\ UNCHANGED << caps, gensts, cmdstatus, cmd, grp_regs, wq_regs, lk >>

(***************************************************************************)
(* idxd_rawdev_destroy and idxd_rawdev_remove_pci                          *)
(***************************************************************************)
\* no other thread is inside a call for the same name
NameFree(t, name) ==
    \A u \in Threads \ {t} : pc[u] = "idle" \/ loc[u].name # name

DestroyReturns(t, value) ==
    /\ loc' = [loc EXCEPT ![t].result = value]
    /\ pc' = [pc EXCEPT ![t] = "done"]

\* lines 218-239: look the name up, then issue the disable command
idxd_rawdev_destroy(t, name) ==
    /\ pc[t] = "idle"
    /\ hist.probe = "returned"
    /\ NameFree(t, name)
    /\ LET l == [NoLocals EXCEPT !.op = "destroy", !.name = name]
       IN  IF ~Registered(name)
           THEN /\ loc' = [loc EXCEPT ![t] = [l EXCEPT !.result = -EINVAL]]
                /\ pc' = [pc EXCEPT ![t] = "done"]
           ELSE /\ loc' = [loc EXCEPT ![t] =
                             CallCommand(l, "destroy", idxd_disable_dev,
                                         rawdevs[name].qid)]
                /\ pc' = [pc EXCEPT ![t] = "cmd_lock"]
    /\ UNCHANGED << caps, gensts, cmdstatus, cmd, grp_regs, wq_regs, pci, lk,
                    rawdevs, hist >>

\* lines 263-277: remove passes the name of the PCI device
idxd_rawdev_remove_pci(t) == idxd_rawdev_destroy(t, DevName)

\* line 240: if (err_code), err_code a uint8_t
DisableFailed(ret) == U8(ret) # 0

\* lines 247-253: the rawdev without its private data
FreeDeviceMemory(r) ==
    IF r.dev_private
    THEN [r EXCEPT !.dev_private = FALSE, !.batch_ring = "freed",
                   !.hdl_ring = "freed", !.mz = "freed"]
    ELSE r

\* line 256: rte_rawdev_pmd_release removes the registration
PmdRelease(r) == [r EXCEPT !.attached = FALSE]

\* lines 240-260: after the disable command
destroy_disabled(t) ==
    /\ pc[t] = "destroy_disabled"
    /\ IF DisableFailed(loc[t].ret)
       THEN /\ rawdevs' = rawdevs
            /\ DestroyReturns(t, U8(loc[t].ret))
       ELSE /\ rawdevs' = [rawdevs EXCEPT ![loc[t].name] =
                            PmdRelease(FreeDeviceMemory(@))]
            /\ DestroyReturns(t, 0)
    /\ UNCHANGED << caps, gensts, cmdstatus, cmd, grp_regs, wq_regs, pci, lk,
                    hist >>

\* the driver function has returned to its caller
thread_return(t) ==
    /\ pc[t] = "done"
    /\ pc' = [pc EXCEPT ![t] = "idle"]
    /\ loc' = [loc EXCEPT ![t] = NoLocals]
    /\ UNCHANGED << caps, gensts, cmdstatus, cmd, grp_regs, wq_regs, pci, lk,
                    rawdevs, hist >>

(***************************************************************************)
(* Specifications.                                                         *)
(***************************************************************************)
\* the queue names probe can register: one per queue it believes there is
HandleBound ==
    LET S == { c.wqs : c \in DeviceCaps } \cup {MaxErr}
    IN  CHOOSE m \in S : \A x \in S : x <= m

QueueNames == { QName(q) : q \in 0 .. HandleBound - 1 }

\* the life of one device, driven by the control thread
Next ==
    \/ HwComplete
    \/ idxd_rawdev_probe_pci(Control)
    \/ init_alloc(Control)
    \/ init_check(Control)
    \/ init_zero(Control)
    \/ init_engines(Control)
    \/ init_wqs(Control)
    \/ init_enable(Control)
    \/ cmd_lock(Control)
    \/ cmd_write(Control)
    \/ cmd_poll(Control)
    \/ cmd_cond(Control)
    \/ cmd_unlock(Control)
    \/ init_enabled(Control)
    \/ probe_init_ret(Control)
    \/ probe_create(Control)
    \/ idxd_rawdev_remove_pci(Control)
    \/ \E n \in QueueNames : idxd_rawdev_destroy(Control, n)
    \/ destroy_disabled(Control)
    \/ thread_return(Control)

Spec == Init /\ [][Next]_vars

(***************************************************************************)
(* Concurrent callers: the device has been probed, every queue has its     *)
(* rawdev, and any thread may call into the driver for any name.           *)
(***************************************************************************)
\* the tables as init_pci_device leaves them (lines 110-146)
ConfiguredGrp(c) ==
    LET g == ClampGroups(U8(c.groups), U8(c.engines))
        e == ClampEngines(g, U8(c.engines))
    IN  AssignWqs(
            AssignEngines(ZeroGroups(StaleGrp(c), U8(c.groups)), 0, e, g,
                          "wrap"),
            0, U8(c.wqs), g, "wrap")

ConfiguredWq(c) ==
    ConfigWqs(ZeroWqs(StaleWq(c), U8(c.wqs)), U8(c.wqs),
              WqSize(U16(c.depth), U8(c.wqs)), c)

\* the registry after probe created queues 0 .. n-1 (lines 194-212)
RawdevsOf(n) ==
    [name \in { QName(q) : q \in 0 .. n - 1 } |->
        NewRawdev(CHOOSE q \in 0 .. n - 1 : QName(q) = name)]

\* the state a successful probe of a device with several queues leaves
Probed ==
    /\ caps \in { c \in DeviceCaps : c.wqs >= 2 }
    /\ gensts = 0
    /\ cmdstatus = [active |-> FALSE, low |-> 0]
    /\ cmd = CmdRegValue(idxd_enable_dev, 0)
    /\ grp_regs = ConfiguredGrp(caps)
    /\ wq_regs = ConfiguredWq(caps)
    /\ pci = "live"
    /\ lk = 0
    /\ rawdevs = RawdevsOf(caps.wqs)
    /\ hist = [NoHistory EXCEPT !.probe = "returned", !.checked = TRUE,
                                !.enable = "complete"]

InitConc ==
    /\ Probed
    /\ pc = [t \in Threads |-> "idle"]
    /\ loc = [t \in Threads |-> NoLocals]

NextConc ==
    \/ HwComplete
    \/ \E t \in Threads :
        \/ idxd_rawdev_remove_pci(t)
        \/ \E n \in QueueNames : idxd_rawdev_destroy(t, n)
        \/ cmd_lock(t)
        \/ cmd_write(t)
        \/ cmd_poll(t)
        \/ cmd_cond(t)
        \/ cmd_unlock(t)
        \/ destroy_disabled(t)
        \/ thread_return(t)

SpecConc == InitConc /\ [][NextConc]_vars

(***************************************************************************)
(* Callers contending for the lock: every thread that has a queue of its   *)
(* own has called idxd_rawdev_destroy for it and stands before the lock.   *)
(* A thread that can take a step of the executor takes it, and a thread    *)
(* for which the lock is free again and again gets it.                     *)
(***************************************************************************)
\* the queue thread t destroys
CallerQueue(t) == QName(t - 1)

InitLive ==
    /\ Probed
    /\ pc = [t \in Threads |->
                IF Registered(CallerQueue(t)) THEN "cmd_lock" ELSE "idle"]
    /\ loc = [t \in Threads |->
                IF Registered(CallerQueue(t))
                THEN CallCommand(
                        [NoLocals EXCEPT !.op = "destroy",
                                         !.name = CallerQueue(t)],
                        "destroy", idxd_disable_dev,
                        rawdevs[CallerQueue(t)].qid)
                ELSE NoLocals]

NextLive ==
    \/ HwComplete
    \/ \E t \in Threads :
        \/ cmd_lock(t)
        \/ cmd_write(t)
        \/ cmd_poll(t)
        \/ cmd_cond(t)
        \/ cmd_unlock(t)

Fairness ==
    \A t \in Threads :
        /\ SF_vars(cmd_lock(t))
        /\ WF_vars(cmd_write(t) \/ cmd_poll(t) \/ cmd_cond(t) \/ cmd_unlock(t))

SpecLive == InitLive /\ [][NextLive]_vars /\ Fairness

(***************************************************************************)
(* The command encoding alone: a caller holding the lock is about to write *)
(* the command register, for every command and every queue index.          *)
(***************************************************************************)
InitEnc ==
    /\ Probed
    /\ \E command \in Cmds, qid \in 0 .. MaxQid :
        /\ pc = [t \in Threads |-> IF t = Control THEN "cmd_write" ELSE "idle"]
        /\ loc = [t \in Threads |->
                    IF t = Control
                    THEN CallCommand([NoLocals EXCEPT !.op = "command"],
                                     "none", command, qid)
                    ELSE NoLocals]

NextEnc == cmd_write(Control)

SpecEnc == InitEnc /\ [][NextEnc]_vars

(***************************************************************************)
(* The configuration planner alone: validation has passed, and the tables  *)
(* are zeroed and filled for every capability tuple up to the bounds and   *)
(* for two more devices: one with 4 groups, 4 engines and 8 queues of 128  *)
(* work slots, and one with more queues than a bitmap word has bits (the   *)
(* queue count is an 8-bit field of wqcap).                                *)
(***************************************************************************)
ExampleCaps ==
    [groups |-> 4, engines |-> 4, wqs |-> 8, depth |-> 128,
     lg2_max_copy_size |-> 20, lg2_max_batch |-> 4]

WideCaps ==
    [groups |-> 2, engines |-> 2, wqs |-> ULL_BITS + 1, depth |-> 130,
     lg2_max_copy_size |-> 20, lg2_max_batch |-> 4]

\* lines 99-105: what grpcap, engcap, wqcap and gencap may report
PlanCaps ==
    [groups : 1 .. MaxGroups, engines : 1 .. MaxEngines, wqs : 1 .. MaxWqs,
     depth : 1 .. MaxDepth, lg2_max_copy_size : {20}, lg2_max_batch : {4}]
    \cup {ExampleCaps, WideCaps}

InitPlan ==
    /\ caps \in PlanCaps
    /\ gensts = 0
    /\ cmdstatus = [active |-> FALSE, low |-> 0]
    /\ cmd = 0
    /\ grp_regs = StaleGrp(caps)
    /\ wq_regs = StaleWq(caps)
    /\ pci = "live"
    /\ lk = 0
    /\ rawdevs = << >>
    /\ pc = [t \in Threads |-> IF t = Control THEN "init_zero" ELSE "idle"]
    /\ loc = [t \in Threads |->
                IF t = Control THEN [NoLocals EXCEPT !.op = "probe"]
                ELSE NoLocals]
    /\ hist = [NoHistory EXCEPT !.probe = "running", !.checked = TRUE]

NextPlan ==
    \/ init_zero(Control)
    \/ init_engines(Control)
    \/ init_wqs(Control)

SpecPlan == InitPlan /\ [][NextPlan]_vars

(***************************************************************************)
(* Properties.                                                             *)
(***************************************************************************)
\* thread t is leaving the executor: how it ended and its value are set,
\* its frame (i, reads, err_code, cond) is still there
Leaving(t) == pc[t] = "cmd_unlock"

\* C1: at most one hardware command is in flight: no caller writes the
\* command register while the command written before it is still active,
\* also after an earlier call returned by timeout.
C1_OneCommandInFlight ==
    [][\A t \in Threads :
          (pc[t] = "cmd_write" /\ pc'[t] = "cmd_poll") => ~cmdstatus.active]_vars

\* C2: when the enable command of probe completes with a nonzero result e,
\* probe returns a failure carrying e unchanged, never 0.
C2_EnableErrorSurfaced ==
    (hist.probe = "returned" /\ hist.enable = "complete" /\ hist.enable_ret # 0)
        => (hist.probe_ret = hist.enable_ret /\ hist.probe_ret # 0)

\* C3: a rawdev of the device exists only if the enable command of the probe
\* completed with result 0; none is created after an error or a timeout.
C3_HandlesOnlyAfterEnable ==
    (DOMAIN rawdevs # {})
        => (hist.enable = "complete" /\ hist.enable_ret = 0)

\* C4: when the disable command of a removal returns a nonzero result,
\* teardown still proceeds: the rings and the memzone are freed, the
\* registration is removed, and the nonzero result is returned.
C4_TeardownDespiteDisableError ==
    \A t \in Threads :
        (pc[t] = "done" /\ loc[t].op = "destroy" /\ loc[t].how # "none"
            /\ loc[t].ret # 0)
        => /\ loc[t].result = loc[t].ret
           /\ ~rawdevs[loc[t].name].attached
           /\ rawdevs[loc[t].name].batch_ring = "freed"
           /\ rawdevs[loc[t].name].hdl_ring = "freed"
           /\ rawdevs[loc[t].name].mz = "freed"

\* C5: after a probe that returned success and created N >= 1 rawdevs, a
\* remove of the same device issues the disable command and retires all N:
\* none is still registered and the resources of each are released.
C5_RemoveRetiresAllHandles ==
    \A t \in Threads :
        (pc[t] = "done" /\ loc[t].op = "destroy" /\ loc[t].name = DevName
            /\ hist.probe_ret = 0 /\ DOMAIN rawdevs # {})
        => /\ loc[t].how # "none"
           /\ \A n \in DOMAIN rawdevs :
                /\ ~rawdevs[n].attached
                /\ rawdevs[n].batch_ring = "freed"
                /\ rawdevs[n].hdl_ring = "freed"
                /\ rawdevs[n].mz = "freed"

\* C6: a call of the executor that ends by timeout never returns 0, the
\* value its callers take for success.
C6_TimeoutNeverZero ==
    \A t \in Threads :
        (Leaving(t) /\ loc[t].how = "timeout") => loc[t].ret # 0

\* C7: a call that returns by normal completion returns the error-code field
\* of the status value in which it saw the active bit clear.
C7_ReturnsObservedErrorCode ==
    \A t \in Threads :
        (Leaving(t) /\ loc[t].how = "complete")
        => loc[t].ret = BitAnd(loc[t].cond.low, CMDSTATUS_ERR_MASK)

\* C8: when the active bit never clears the executor returns by timeout
\* after exactly 1000 polls (a pause and a status read each): a call that
\* ends by timeout has made 1000 polls, no call makes more, and a call ends
\* by completion only when the active bit did clear.
C8_TimeoutAfterExactlyCap ==
    \A t \in Threads :
        /\ loc[t].reads <= PollCap
        /\ (Leaving(t) /\ loc[t].how = "timeout") => loc[t].reads = PollCap
        /\ (Leaving(t) /\ loc[t].how = "complete") => ~cmdstatus.active

C8_Witness ==
    \E t \in Threads :
        /\ Leaving(t)
        /\ loc[t].how = "timeout"
        /\ loc[t].reads = PollCap
        /\ cmdstatus.active

\* C9: for the queue-scoped commands (enable, disable, reset of one queue)
\* and every queue index q the command register receives
\* (opcode << 8) | (1 << q), a target with exactly bit q set, never 0 and
\* never the raw index; device-scoped commands pass the target unshifted.
C9_QueueTargetIsOneBit ==
    LET l == loc[Control]
    IN  (pc[Control] = "cmd_poll" /\ l.op = "command")
        => IF l.command \in {idxd_enable_wq, idxd_disable_wq, idxd_reset_wq}
           THEN /\ cmd = BitOr(Shl(l.command, IDXD_CMD_SHIFT), Shl(1, l.qid))
                /\ cmd # Shl(l.command, IDXD_CMD_SHIFT)
           ELSE l.command < idxd_enable_wq
                => cmd = BitOr(Shl(l.command, IDXD_CMD_SHIFT), l.qid)

\* C10: when probe finds the device state field not idle, or a command in
\* progress, it fails, creates no rawdev and writes no register: the group
\* table, the queue table and the command register are as before the probe.
C10_FailedValidationWritesNothing ==
    (hist.checked /\ (hist.seen_gensts # 0 \/ hist.seen_active))
        => /\ grp_regs = StaleGrp(caps)
           /\ wq_regs = StaleWq(caps)
           /\ cmd = 0
           /\ DOMAIN rawdevs = {}
           /\ \A t \in Threads : loc[t].nwrites = 0
           /\ pc[Control] \in {"probe_init_ret", "done", "idle"}
           /\ hist.probe = "returned" => hist.probe_ret < 0

C10_Witness ==
    /\ hist.probe = "returned"
    /\ hist.checked
    /\ hist.seen_gensts = 0
    /\ hist.seen_active
    /\ hist.probe_ret = -1
    /\ grp_regs = StaleGrp(caps)
    /\ cmd = 0

\* min(groups, engines) of the capabilities
PlanGroups(c) == IF c.groups < c.engines THEN c.groups ELSE c.engines

\* the configuration step of init_pci_device is over
Configured == pc[Control] = "init_enable"

\* engine i, queue i is a member of group g: its bit of the group's engine
\* bitmap, of the group's queue bitmap (four words), is 1
EngineMember(g, i) == i < ULL_BITS /\ i \in grp_regs[g].grpengcfg

QueueMember(g, i) ==
    (i % ULL_BITS) \in grp_regs[g].grpwqcfg[i \div ULL_BITS]

\* C11: for groups, engines, queues >= 1 and depth >= queues the
\* configuration puts every engine of the clamped set and every queue in
\* exactly one group, of index below min(groups, engines); every such group
\* has exactly one engine; every queue has depth floor(depth / queues).
C11_PlanAssignsEachToOneGroup ==
    (Configured /\ caps.depth >= caps.wqs)
    => LET n == PlanGroups(caps)
           EngineGroups(i) == { g \in DOMAIN grp_regs : EngineMember(g, i) }
           WqGroups(i) == { g \in DOMAIN grp_regs : QueueMember(g, i) }
           EnginesOf(g) == { i \in 0 .. n - 1 : EngineMember(g, i) }
       IN  /\ \A i \in 0 .. n - 1 :
                /\ Cardinality(EngineGroups(i)) = 1
                /\ EngineGroups(i) \subseteq 0 .. n - 1
           /\ \A i \in 0 .. caps.wqs - 1 :
                /\ Cardinality(WqGroups(i)) = 1
                /\ WqGroups(i) \subseteq 0 .. n - 1
           /\ \A g \in 0 .. n - 1 : Cardinality(EnginesOf(g)) = 1
           /\ \A q \in 0 .. caps.wqs - 1 :
                wq_regs[q][WQ_SIZE_IDX] = caps.depth \div caps.wqs

\* C12: after the configuration step the registers equal the plan: the
\* engine bitmap of group g is {i < n : i mod n = g} and its queue bitmap is
\* {i < queues : i mod n = g}, n = min(groups, engines); groups from n on
\* have empty bitmaps; every queue has size floor(depth / queues), mode
\* dedicated with priority 1 and limits copy | (batch << batch shift). The
\* device with 4 groups, 4 engines, 8 queues and depth 128 gets 4 groups of
\* 1 engine and 2 queues each, and depth 16 per queue.
C12_RegistersEqualPlan ==
    (Configured /\ caps.depth >= caps.wqs)
    => LET n == PlanGroups(caps)
       IN  /\ \A g \in DOMAIN grp_regs :
                /\ grp_regs[g].grpengcfg =
                      { i \in 0 .. n - 1 : g < n /\ i % n = g }
                /\ \A i \in 0 .. caps.wqs - 1 :
                      QueueMember(g, i) <=> (g < n /\ i % n = g)
           /\ \A q \in DOMAIN wq_regs :
                /\ wq_regs[q][WQ_SIZE_IDX] = caps.depth \div caps.wqs
                /\ wq_regs[q][WQ_MODE_IDX] % Pow2(WQ_PRIORITY_SHIFT)
                      = WQ_MODE_DEDICATED
                /\ wq_regs[q][WQ_MODE_IDX] \div Pow2(WQ_PRIORITY_SHIFT) = 1
                /\ wq_regs[q][WQ_SIZES_IDX] =
                      BitOr(caps.lg2_max_copy_size,
                            caps.lg2_max_batch * Pow2(WQ_BATCH_SZ_SHIFT))
           /\ caps = ExampleCaps
              => /\ DOMAIN grp_regs = 0 .. 3
                 /\ \A g \in 0 .. 3 :
                      /\ grp_regs[g].grpengcfg = {g}
                      /\ grp_regs[g].grpwqcfg[0] = {g, g + 4}
                 /\ \A q \in 0 .. 7 : wq_regs[q][WQ_SIZE_IDX] = 16

\* C13: when the creation of the rawdev of queue k fails, probe stops and
\* returns that failure; the rawdevs of queues 0 .. k-1 stay registered with
\* their resources, none of a later queue is ever created, and the control
\* structure is freed if and only if k = 0.
C13_PartialProbeKeepsEarlierHandles ==
    LET k == hist.failed_qid
    IN  k >= 0
        => /\ hist.probe = "returned"
           /\ hist.probe_ret = -12
           /\ DOMAIN rawdevs = { QName(q) : q \in 0 .. k - 1 }
           /\ (pci = "freed") <=> (k = 0)
           /\ (pci = "live") <=> (k # 0)
           /\ (pc[Control] = "done" /\ loc[Control].op = "probe")
              => /\ loc[Control].result = hist.probe_ret
                 /\ \A n \in DOMAIN rawdevs :
                      /\ rawdevs[n].attached
                      /\ rawdevs[n].dev_private
                      /\ rawdevs[n].mz = "alloc"

C13_Witness ==
    /\ pc[Control] = "done"
    /\ loc[Control].op = "probe"
    /\ hist.failed_qid = 1
    /\ pci = "live"
    /\ DOMAIN rawdevs = {QName(0)}
    /\ rawdevs[QName(0)].attached

\* C14: after a probe that returned success on a device reporting Q queues
\* there are exactly Q rawdevs, one per queue index i < Q, each with queue
\* index i and portal base + i * 16384, all of the one control structure; a
\* queue whose state field read enabled was reported and has its rawdev.
C14_SuccessMeansOneHandlePerQueue ==
    (pc[Control] = "done" /\ loc[Control].op = "probe" /\ hist.probe_ret = 0)
    => /\ DOMAIN rawdevs = { QName(i) : i \in 0 .. caps.wqs - 1 }
       /\ \A i \in 0 .. caps.wqs - 1 :
            /\ rawdevs[QName(i)].attached
            /\ rawdevs[QName(i)].qid = i
            /\ rawdevs[QName(i)].portal = i * IDXD_PORTAL_SIZE
       /\ pci = "live"
       /\ \A i \in hist.anomalies : QName(i) \in DOMAIN rawdevs

\* C15: the executor returns by timeout only if the active bit was set in
\* every status value it read, the 1000th included: a call whose last read
\* saw the active bit clear ends by normal completion.
C15_TimeoutOnlyWhileActive ==
    \A t \in Threads :
        (Leaving(t) /\ loc[t].how = "timeout") => loc[t].seen.active

\* thread t is inside the executor, past rte_spinlock_lock
InExecutor(t) == pc[t] \in {"cmd_write", "cmd_poll", "cmd_cond", "cmd_unlock"}

\* C16: a call that has the lock ends after at most 1000 status polls
\* whatever the hardware does and releases the lock on both return paths:
\* the lock is held exactly while its holder is inside the executor, and
\* under fair lock acquisition every caller waiting for the lock returns.
C16_CallsTerminateAndReleaseLock ==
    /\ [](\A t \in Threads :
            /\ loc[t].reads <= PollCap
            /\ InExecutor(t) <=> lk = t)
    /\ []((lk = 0) <=> (\A t \in Threads : ~InExecutor(t)))
    /\ \A t \in Threads :
          (pc[t] = "cmd_lock")
              ~> (pc[t] = "destroy_disabled" /\ lk # t
                    /\ loc[t].how \in {"complete", "timeout"})

C16_Witness ==
    \E t, u \in Threads :
        /\ t # u
        /\ pc[t] = "destroy_disabled"
        /\ loc[t].how = "timeout"
        /\ pc[u] = "destroy_disabled"
        /\ loc[u].how = "complete"
        /\ lk = 0

\* the register writes of the configuration step (lines 110-146)
ConfigWrites(c) ==
    2 * c.groups + c.wqs + PlanGroups(c) + 4 * c.wqs

\* C17: within a probe the enable command is written only after validation
\* passed and after every write of the configuration step; no group or
\* queue register is written once it is issued, and the command register
\* is written at most once.
C17_EnableAfterConfigurationOnce ==
    LET l == loc[Control]
    IN  l.op = "probe"
        => /\ l.cmd_writes <= 1
           /\ l.cmd_writes = 0 => cmd = 0
           /\ l.cmd_writes = 1
              => /\ hist.checked
                 /\ BitAnd(hist.seen_gensts, GENSTS_DEV_STATE_MASK) = 0
                 /\ ~hist.seen_active
                 /\ cmd = CmdRegValue(idxd_enable_dev, 0)
                 /\ grp_regs = ConfiguredGrp(caps)
                 /\ wq_regs = ConfiguredWq(caps)
                 /\ l.nwrites = ConfigWrites(caps) + 1

C17_Witness ==
    /\ pc[Control] = "probe_create"
    /\ loc[Control].op = "probe"
    /\ loc[Control].cmd_writes = 1
    /\ loc[Control].nwrites = ConfigWrites(caps) + 1
    /\ cmd = CmdRegValue(idxd_enable_dev, 0)
    /\ wq_regs = ConfiguredWq(caps)

\* C18: after the configuration step no word of the group table or of the
\* queue table keeps its value from before the probe: the engine bitmap and
\* the queue bitmap words hold planned members only, the flags are zero,
\* and a queue word is zero or the size, mode or limits the plan wrote.
C18_NoStaleConfiguration ==
    Configured
    => LET n == PlanGroups(caps)
       IN  /\ \A g \in DOMAIN grp_regs :
                /\ \A i \in grp_regs[g].grpengcfg : i < n /\ i % n = g
                /\ \A i \in grp_regs[g].grpwqcfg[0] :
                      i < caps.wqs /\ i % n = g
                /\ \A w \in 1 .. 3 : grp_regs[g].grpwqcfg[w] = {}
                /\ grp_regs[g].grpflags = 0
           /\ \A q \in DOMAIN wq_regs :
                /\ wq_regs[q][WQ_SIZE_IDX] = loc[Control].wq_size
                /\ wq_regs[q][WQ_MODE_IDX] = WqModeWord
                /\ wq_regs[q][WQ_SIZES_IDX] =
                      WqSizesWord(caps.lg2_max_copy_size, caps.lg2_max_batch)
                /\ \A w \in DOMAIN wq_regs[q] \
                            {WQ_SIZE_IDX, WQ_MODE_IDX, WQ_SIZES_IDX} :
                      wq_regs[q][w] = 0

\* thread t is in an executor call made through the rawdev of a queue
CallThroughHandle(t) ==
    /\ loc[t].caller = "destroy"
    /\ pc[t] = "cmd_lock" \/ InExecutor(t)

\* C19: through probe, a probe that fails part way, and removals, the
\* control structure is never freed while a registered rawdev refers to it
\* and never freed twice: every executor call made through a rawdev finds
\* the control structure allocated.
C19_ControlStructureOutlivesHandles ==
    /\ hist.frees <= 1
    /\ (pci = "freed") <=> (hist.frees = 1)
    /\ pci = "freed" => \A n \in DOMAIN rawdevs : ~rawdevs[n].attached
    /\ \A t \in Threads : CallThroughHandle(t) => pci = "live"

C19_Witness ==
    /\ hist.failed_qid = 1
    /\ pci = "live"
    /\ pc[Control] = "cmd_poll"
    /\ CallThroughHandle(Control)
    /\ rawdevs[loc[Control].name].attached

====
